---- MODULE Spec2Model ----
(***************************************************************************)
(* The three mask kernels of the sticker maker: apply_sticker_mask_native, *)
(* smooth_mask_native and expand_mask_native, the last in its two variants *)
(* (src/src/native and src/ios/Classes).                                   *)
(*                                                                         *)
(* A C double is kept exactly: a non-negative binary64 value v is the      *)
(* natural number v * 2^FracBits, written as a little-endian sequence of   *)
(* limbs in base 2^15 without leading zero limbs.  Every arithmetic step   *)
(* of the code rounds to 53 significant bits, ties to even, as the FPU     *)
(* does.                                                                   *)
(***************************************************************************)
EXTENDS Integers, Sequences, FiniteSets

(***************************************************************************)
(* Natural numbers of any size (TLC's integers are 32 bits wide).          *)
(***************************************************************************)
LimbBase == 2^15

RECURSIVE BigNorm(_)
BigNorm(a) ==
  IF a = <<>> THEN <<>>
  ELSE IF a[Len(a)] = 0 THEN BigNorm(SubSeq(a, 1, Len(a) - 1))
  ELSE a

BigLimb(a, i) == IF i <= Len(a) THEN a[i] ELSE 0

RECURSIVE BigCmpFrom(_, _, _)
BigCmpFrom(a, b, i) ==
  IF i = 0 THEN 0
  ELSE IF a[i] < b[i] THEN -1
  ELSE IF a[i] > b[i] THEN 1
  ELSE BigCmpFrom(a, b, i - 1)

\* -1, 0 or 1 as a < b, a = b, a > b.
BigCmp(a, b) ==
  IF Len(a) < Len(b) THEN -1
  ELSE IF Len(a) > Len(b) THEN 1
  ELSE BigCmpFrom(a, b, Len(a))

RECURSIVE BigAddFrom(_, _, _, _)
BigAddFrom(a, b, i, carry) ==
  IF i > Len(a) /\ i > Len(b)
  THEN IF carry = 0 THEN <<>> ELSE <<carry>>
  ELSE LET s == BigLimb(a, i) + BigLimb(b, i) + carry
       IN  <<s % LimbBase>> \o BigAddFrom(a, b, i + 1, s \div LimbBase)

BigAdd(a, b) == BigAddFrom(a, b, 1, 0)

RECURSIVE BigSubFrom(_, _, _, _)
BigSubFrom(a, b, i, borrow) ==
  IF i > Len(a) THEN <<>>
  ELSE LET d == a[i] - BigLimb(b, i) - borrow
       IN  IF d < 0
           THEN <<d + LimbBase>> \o BigSubFrom(a, b, i + 1, 1)
           ELSE <<d>> \o BigSubFrom(a, b, i + 1, 0)

\* a - b for a >= b.
BigSub(a, b) == BigNorm(BigSubFrom(a, b, 1, 0))

RECURSIVE BigMulSmallFrom(_, _, _, _)
BigMulSmallFrom(a, n, i, carry) ==
  IF i > Len(a)
  THEN IF carry = 0 THEN <<>> ELSE <<carry>>
  ELSE LET p == a[i] * n + carry
       IN  <<p % LimbBase>> \o BigMulSmallFrom(a, n, i + 1, p \div LimbBase)

\* a * n for 0 <= n < 2^15.
BigMulSmall(a, n) == BigNorm(BigMulSmallFrom(a, n, 1, 0))

RECURSIVE BigDivSmallFrom(_, _, _, _)
BigDivSmallFrom(a, n, i, rem) ==
  IF i = 0 THEN <<<<>>, rem>>
  ELSE LET cur  == rem * LimbBase + a[i]
           rest == BigDivSmallFrom(a, n, i - 1, cur % n)
       IN  <<Append(rest[1], cur \div n), rest[2]>>

\* <<a div n, a mod n>> for 0 < n < 2^15.
BigDivSmall(a, n) ==
  LET r == BigDivSmallFrom(a, n, Len(a), 0)
  IN  <<BigNorm(r[1]), r[2]>>

RECURSIVE SmallBitLen(_)
SmallBitLen(n) == IF n = 0 THEN 0 ELSE 1 + SmallBitLen(n \div 2)

BigBitLen(a) ==
  IF a = <<>> THEN 0 ELSE 15 * (Len(a) - 1) + SmallBitLen(a[Len(a)])

\* a * 2^s.
BigShl(a, s) ==
  IF a = <<>> THEN <<>>
  ELSE LET whole == s \div 15
           m     == 2^(s % 15)
       IN  [i \in 1..whole |-> 0] \o BigMulSmall(a, m)

\* a div 2^s.
BigShr(a, s) ==
  LET whole == s \div 15
      m     == 2^(s % 15)
  IN  IF whole >= Len(a) THEN <<>>
      ELSE BigDivSmall(SubSeq(a, whole + 1, Len(a)), m)[1]

BigBit(a, k) == (BigLimb(a, (k \div 15) + 1) \div 2^(k % 15)) % 2

RECURSIVE BigQuotDigit(_, _, _, _)
\* The largest q + d with d < 2^(bit+1) and b * (q + d) <= cur.
BigQuotDigit(cur, b, bit, q) ==
  IF bit < 0 THEN q
  ELSE IF BigCmp(BigMulSmall(b, q + 2^bit), cur) <= 0
       THEN BigQuotDigit(cur, b, bit - 1, q + 2^bit)
       ELSE BigQuotDigit(cur, b, bit - 1, q)

RECURSIVE BigDivModFrom(_, _, _, _)
BigDivModFrom(a, b, i, rem) ==
  IF i = 0 THEN <<<<>>, rem>>
  ELSE LET cur  == BigNorm(<<a[i]>> \o rem)
           q    == BigQuotDigit(cur, b, 14, 0)
           left == BigSub(cur, BigMulSmall(b, q))
       IN  IF BigCmp(left, b) < 0
           THEN LET rest == BigDivModFrom(a, b, i - 1, left)
                IN  <<Append(rest[1], q), rest[2]>>
           ELSE <<<<>>, left>>

\* <<a div b, a mod b>> for b > 0, by long division.
BigDivMod(a, b) ==
  LET r == BigDivModFrom(a, b, Len(a), <<>>)
  IN  <<BigNorm(r[1]), r[2]>>

\* The value of a number below 2^30 as an integer.
BigToInt(a) == BigLimb(a, 1) + LimbBase * BigLimb(a, 2)

(***************************************************************************)
(* IEEE-754 binary64 values >= 0 and their arithmetic.                     *)
(***************************************************************************)
DOne == <<0, 0, 0, 0, 0, 0, 0, 1>>
DZero == <<>>
FracBits == 15 * (Len(DOne) - 1)

\* n rounded to 53 significant bits, ties to even; sticky says that the exact
\* value lies strictly above n (the remainder of a division).
RoundD(n, sticky) ==
  LET len == BigBitLen(n)
  IN  IF len <= 53 THEN n
      ELSE LET s    == len - 53
               q    == BigShr(n, s)
               low  == BigSub(n, BigShl(q, s))
               c    == BigCmp(low, BigShl(<<1>>, s - 1))
               up   == c > 0 \/ (c = 0 /\ (sticky \/ BigBit(q, 0) = 1))
           IN  BigShl(IF up THEN BigAdd(q, <<1>>) ELSE q, s)

FAdd(a, b) == RoundD(BigAdd(a, b), FALSE)

\* a - b for a >= b.
FSub(a, b) == RoundD(BigSub(a, b), FALSE)

\* a / (double)n for an int 0 < n < 2^15.
FDivInt(a, n) ==
  LET qr == BigDivSmall(a, n) IN RoundD(qr[1], qr[2] # 0)

\* a * (double)n for an int 0 <= n < 2^15.
FMulInt(a, n) == RoundD(BigMulSmall(a, n), FALSE)

\* a / b for b > 0.
FDiv(a, b) ==
  LET qr == BigDivMod(BigShl(a, FracBits), b) IN RoundD(qr[1], qr[2] # <<>>)

DLess(a, b) == BigCmp(a, b) < 0
DGreater(a, b) == BigCmp(a, b) > 0
DLeq(a, b) == BigCmp(a, b) <= 0

\* The double of the decimal literal k/100.
Lit(k) == FDivInt(BigMulSmall(DOne, k), 100)

\* round(): to the nearest integer, halves away from zero; (int) of it.
round(a) == BigToInt(BigShr(BigAdd(a, BigShl(<<1>>, FracBits - 1)), FracBits))

(***************************************************************************)
(* Bounds of the model.                                                    *)
(***************************************************************************)
MaxBorderWidth == 4
MaxKernelSize == 3
MaxForeground == 2

\* The grids: <<width, height>>.  On the small ones every mask is tried.
SmallDims == {<<1, 1>>, <<2, 1>>, <<1, 2>>}
ShapeDims == {<<3, 1>>, <<1, 3>>, <<3, 3>>, <<6, 2>>}

\* Mask values, in hundredths, around the two thresholds and away from them.
Levels == {0, 10, 44, 45, 48, 50, 55, 56, 70, 100}
ForegroundLevels == {70, 100}
BorderColors == {[r |-> 250, g |-> 128, b |-> 7]}

\* The absent buffer (a null pointer): a buffer without cells.
NULL == <<>>
MASK_PROCESSOR_SUCCESS == 0
MASK_PROCESSOR_ERROR_INVALID_PARAMS == -1
MASK_PROCESSOR_ERROR_MEMORY == -2

(***************************************************************************)
(* mask_processor.c                                                        *)
(***************************************************************************)
THRESHOLD == Lit(50)
THRESHOLD_HIGH == FAdd(THRESHOLD, Lit(5))
THRESHOLD_LOW == FSub(THRESHOLD, Lit(5))
THRESHOLD_RANGE == Lit(10)

clamp_int(value, min, max) ==
  IF value < min THEN min ELSE IF value > max THEN max ELSE value

\* TransitionAlpha with the ramp turned round: it falls from THRESHOLD_LOW to
\* THRESHOLD_HIGH.
TransitionAlpha_Falling(mask_value) ==
  clamp_int(
    round(FMulInt(FDiv(FSub(THRESHOLD_HIGH, mask_value), THRESHOLD_RANGE), 255)),
    0, 255)

\* The alpha of the smooth transition.
TransitionAlpha(mask_value) ==
  clamp_int(
    round(FMulInt(FDiv(FSub(mask_value, THRESHOLD_LOW), THRESHOLD_RANGE), 255)),
    0, 255)

\* The doubles a caller's mask holds here, and TransitionAlpha on them,
\* computed once.
MaskValues == {Lit(k) : k \in Levels}
TransitionAlphaOf == [d \in MaskValues |-> TransitionAlpha(d)]

\* PixelWrites without the add_border test: the expanded mask alone decides.
PixelWrites_BorderAlways(i, mask_value, expanded_mask_value, add_border, border_color) ==
  LET pixel_index == i * 4
  IN  IF DGreater(mask_value, THRESHOLD_HIGH)
      THEN {<<pixel_index + 3, 255>>}
      ELSE IF DLess(mask_value, THRESHOLD_LOW)
      THEN IF DGreater(expanded_mask_value, THRESHOLD)
           THEN {<<pixel_index, border_color.r>>,
                 <<pixel_index + 1, border_color.g>>,
                 <<pixel_index + 2, border_color.b>>,
                 <<pixel_index + 3, 255>>}
           ELSE {<<pixel_index + 3, 0>>}
      ELSE {<<pixel_index + 3, TransitionAlphaOf[mask_value]>>}

\* PixelWrites with the background's alpha written to the pixel's first byte.
PixelWrites_FirstByte(i, mask_value, expanded_mask_value, add_border, border_color) ==
  LET pixel_index == i * 4
  IN  IF DGreater(mask_value, THRESHOLD_HIGH)
      THEN {<<pixel_index + 3, 255>>}
      ELSE IF DLess(mask_value, THRESHOLD_LOW)
      THEN IF add_border # 0 /\ DGreater(expanded_mask_value, THRESHOLD)
           THEN {<<pixel_index, border_color.r>>,
                 <<pixel_index + 1, border_color.g>>,
                 <<pixel_index + 2, border_color.b>>,
                 <<pixel_index + 3, 255>>}
           ELSE {<<pixel_index, 0>>}
      ELSE {<<pixel_index + 3, TransitionAlphaOf[mask_value]>>}

\* One iteration of the loop of apply_sticker_mask_native: the bytes it
\* writes, as <<index, value>> pairs.
PixelWrites(i, mask_value, expanded_mask_value, add_border, border_color) ==
  LET pixel_index == i * 4
  IN  IF DGreater(mask_value, THRESHOLD_HIGH)
      THEN {<<pixel_index + 3, 255>>}
      ELSE IF DLess(mask_value, THRESHOLD_LOW)
      THEN IF add_border # 0 /\ DGreater(expanded_mask_value, THRESHOLD)
           THEN {<<pixel_index, border_color.r>>,
                 <<pixel_index + 1, border_color.g>>,
                 <<pixel_index + 2, border_color.b>>,
                 <<pixel_index + 3, 255>>}
           ELSE {<<pixel_index + 3, 0>>}
      ELSE {<<pixel_index + 3, TransitionAlphaOf[mask_value]>>}

\* CompositeWrites with an absent expanded mask read as 1.0 everywhere.
CompositeWrites_AbsentIsOne(m, w, h, add_border, border_color, expanded_mask) ==
  LET total_pixels == w * h
  IN  UNION {PixelWrites(i, m[i],
                         IF expanded_mask # NULL THEN expanded_mask[i] ELSE DOne,
                         add_border, border_color) : i \in 0..(total_pixels - 1)}

\* All the writes of one call.
CompositeWrites(m, w, h, add_border, border_color, expanded_mask) ==
  LET total_pixels == w * h
  IN  UNION {PixelWrites(i, m[i],
                         IF expanded_mask # NULL THEN expanded_mask[i] ELSE m[i],
                         add_border, border_color) : i \in 0..(total_pixels - 1)}

\* The buffer px after the writes wr (each byte is written at most once).
Store(px, wr) ==
  [j \in DOMAIN px |->
     IF \E v \in wr : v[1] = j THEN (CHOOSE v \in wr : v[1] = j)[2] ELSE px[j]]

\* apply_sticker_mask_native: the result code, the pixel buffer after the
\* call and the byte indices written.
apply_sticker_mask_native(px, m, w, h, add_border, border_color, border_width, expanded_mask) ==
  IF px = NULL \/ m = NULL \/ w <= 0 \/ h <= 0
  THEN [result |-> MASK_PROCESSOR_ERROR_INVALID_PARAMS, pixels |-> px, written |-> {}]
  ELSE LET wr == CompositeWrites(m, w, h, add_border, border_color, expanded_mask)
       IN  [result |-> MASK_PROCESSOR_SUCCESS,
            pixels |-> Store(px, wr),
            written |-> {v[1] : v \in wr}]

\* The kx loop of the horizontal pass: <<sum, count>> from offset kx on.
RECURSIVE HorizontalWindow(_, _, _, _, _, _, _)
HorizontalWindow(m, w, x, y, kx, half_kernel, acc) ==
  IF kx > half_kernel THEN acc
  ELSE LET nx == x + kx
       IN  HorizontalWindow(m, w, x, y, kx + 1, half_kernel,
             IF nx >= 0 /\ nx < w
             THEN <<FAdd(acc[1], m[y * w + nx]), acc[2] + 1>>
             ELSE acc)

\* The ky loop of the vertical pass.
RECURSIVE VerticalWindow(_, _, _, _, _, _, _, _)
VerticalWindow(temp, w, h, x, y, ky, half_kernel, acc) ==
  IF ky > half_kernel THEN acc
  ELSE LET ny == y + ky
       IN  VerticalWindow(temp, w, h, x, y, ky + 1, half_kernel,
             IF ny >= 0 /\ ny < h
             THEN <<FAdd(acc[1], temp[ny * w + x]), acc[2] + 1>>
             ELSE acc)

\* HorizontalPass with the sum divided by the whole window (zero padding).
HorizontalPass_ZeroPadded(m, w, h, half_kernel) ==
  [i \in 0..(w * h - 1) |->
     LET sc == HorizontalWindow(m, w, i % w, i \div w, -half_kernel, half_kernel,
                                <<DZero, 0>>)
     IN  FDivInt(sc[1], 2 * half_kernel + 1)]

HorizontalPass(m, w, h, half_kernel) ==
  [i \in 0..(w * h - 1) |->
     LET sc == HorizontalWindow(m, w, i % w, i \div w, -half_kernel, half_kernel,
                                <<DZero, 0>>)
     IN  FDivInt(sc[1], sc[2])]

VerticalPass(temp, w, h, half_kernel) ==
  [i \in 0..(w * h - 1) |->
     LET sc == VerticalWindow(temp, w, h, i % w, i \div w, -half_kernel, half_kernel,
                              <<DZero, 0>>)
     IN  FDivInt(sc[1], sc[2])]

\* The indices the two passes read and write: mask and temp in the windows,
\* temp and output at the cell.
SmoothAccesses(w, h, half_kernel) ==
  UNION {{y * w + x} \cup
         {y * w + (x + kx) : kx \in {k \in (-half_kernel)..half_kernel :
                                       x + k >= 0 /\ x + k < w}} \cup
         {(y + ky) * w + x : ky \in {k \in (-half_kernel)..half_kernel :
                                       y + k >= 0 /\ y + k < h}}
         : x \in 0..(w - 1), y \in 0..(h - 1)}

\* smooth_mask_native without the test of kernel_size in its validation.
smooth_mask_native_NoSizeCheck(m, out, w, h, kernel_size, malloc_ok) ==
  IF m = NULL \/ out = NULL \/ w <= 0 \/ h <= 0
  THEN [result |-> MASK_PROCESSOR_ERROR_INVALID_PARAMS, output |-> out,
        accessed |-> {}, allocated |-> 0, freed |-> 0]
  ELSE IF kernel_size <= 1
  THEN [result |-> MASK_PROCESSOR_SUCCESS, output |-> [i \in 0..(w * h - 1) |-> m[i]],
        accessed |-> 0..(w * h - 1), allocated |-> 0, freed |-> 0]
  ELSE IF ~malloc_ok
  THEN [result |-> MASK_PROCESSOR_ERROR_MEMORY, output |-> out,
        accessed |-> {}, allocated |-> 0, freed |-> 0]
  ELSE LET half_kernel == kernel_size \div 2
           temp == HorizontalPass(m, w, h, half_kernel)
       IN  [result |-> MASK_PROCESSOR_SUCCESS,
            output |-> VerticalPass(temp, w, h, half_kernel),
            accessed |-> SmoothAccesses(w, h, half_kernel),
            allocated |-> 1, freed |-> 1]

\* smooth_mask_native; malloc_ok says whether the scratch buffer is granted.
smooth_mask_native(m, out, w, h, kernel_size, malloc_ok) ==
  IF m = NULL \/ out = NULL \/ w <= 0 \/ h <= 0 \/ kernel_size <= 0
  THEN [result |-> MASK_PROCESSOR_ERROR_INVALID_PARAMS, output |-> out,
        accessed |-> {}, allocated |-> 0, freed |-> 0]
  ELSE IF kernel_size <= 1
  THEN [result |-> MASK_PROCESSOR_SUCCESS, output |-> [i \in 0..(w * h - 1) |-> m[i]],
        accessed |-> 0..(w * h - 1), allocated |-> 0, freed |-> 0]
  ELSE IF ~malloc_ok
  THEN [result |-> MASK_PROCESSOR_ERROR_MEMORY, output |-> out,
        accessed |-> {}, allocated |-> 0, freed |-> 0]
  ELSE LET half_kernel == kernel_size \div 2
           temp == HorizontalPass(m, w, h, half_kernel)
       IN  [result |-> MASK_PROCESSOR_SUCCESS,
            output |-> VerticalPass(temp, w, h, half_kernel),
            accessed |-> SmoothAccesses(w, h, half_kernel),
            allocated |-> 1, freed |-> 1]

\* DiskCells with the distance test strict.
DiskCells_Strict(w, h, x, y, border_width) ==
  LET border_width_sq == border_width * border_width
      start_y == clamp_int(y - border_width, 0, h - 1)
      end_y   == clamp_int(y + border_width, 0, h - 1)
      start_x == clamp_int(x - border_width, 0, w - 1)
      end_x   == clamp_int(x + border_width, 0, w - 1)
  IN  {ny * w + nx : <<nx, ny>> \in
         {c \in (start_x..end_x) \X (start_y..end_y) :
            (c[1] - x) * (c[1] - x) + (c[2] - y) * (c[2] - y) < border_width_sq}}

\* The cells that one foreground cell (x, y) marks in expand_mask_native of
\* src/src/native: the clamped window, then the distance test.
DiskCells(w, h, x, y, border_width) ==
  LET border_width_sq == border_width * border_width
      start_y == clamp_int(y - border_width, 0, h - 1)
      end_y   == clamp_int(y + border_width, 0, h - 1)
      start_x == clamp_int(x - border_width, 0, w - 1)
      end_x   == clamp_int(x + border_width, 0, w - 1)
  IN  {ny * w + nx : <<nx, ny>> \in
         {c \in (start_x..end_x) \X (start_y..end_y) :
            (c[1] - x) * (c[1] - x) + (c[2] - y) * (c[2] - y) <= border_width_sq}}

\* The cells of the mask above THRESHOLD.
Foreground(m, w, h) == {i \in 0..(w * h - 1) : DGreater(m[i], THRESHOLD)}

\* A zeroed buffer with the cells of marked set to 1.0.
Marks(w, h, marked) == [i \in 0..(w * h - 1) |-> IF i \in marked THEN DOne ELSE DZero]

\* expand_mask_native of src/src/native/mask_processor.c.
expand_mask_native(m, out, w, h, border_width) ==
  IF m = NULL \/ out = NULL \/ w <= 0 \/ h <= 0 \/ border_width < 0
  THEN [result |-> MASK_PROCESSOR_ERROR_INVALID_PARAMS, output |-> out,
        accessed |-> {}, allocated |-> 0, freed |-> 0]
  ELSE LET marked == UNION {DiskCells(w, h, i % w, i \div w, border_width) :
                              i \in Foreground(m, w, h)}
       IN  [result |-> MASK_PROCESSOR_SUCCESS,
            output |-> Marks(w, h, marked),
            accessed |-> (0..(w * h - 1)) \cup marked,
            allocated |-> 0, freed |-> 0]

\* C's integer division and remainder: the quotient is cut towards zero.
CDiv(a, b) == IF a >= 0 THEN a \div b ELSE -((-a) \div b)
CRem(a, b) == a - b * CDiv(a, b)

\* kernel_offsets of the iOS variant: the offsets of the disk, as index steps.
KernelOffsets(w, border_width) ==
  {dy * w + dx : <<dx, dy>> \in
     {o \in ((-border_width)..border_width) \X ((-border_width)..border_width) :
        o[1] * o[1] + o[2] * o[2] <= border_width * border_width}}

\* The cells the direct branch of the iOS variant marks from centre center_idx.
KernelTargets(w, h, center_idx, border_width) ==
  {target_idx \in {center_idx + o : o \in KernelOffsets(w, border_width)} :
     LET target_y == CDiv(target_idx, w)
         target_x == CRem(target_idx, w)
     IN  target_y >= 0 /\ target_y < h /\ target_x >= 0 /\ target_x < w}

\* The value read at temp_buffer[idx]; outside the buffer it is whatever the
\* memory below or above it holds.
ReadAt(temp, idx, garbage) ==
  IF idx \in DOMAIN temp THEN temp[idx]
  ELSE IF idx < 0 THEN garbage.below ELSE garbage.above

\* A condition (g1 && temp[i1] > 0.0) || (g2 && temp[i2] > 0.0) || ..., given
\* as the sequence of its <<guard, index>> terms.
TermHolds(temp, term, garbage) ==
  term[1] /\ DGreater(ReadAt(temp, term[2], garbage), DZero)

AnyNeighbour(temp, terms, garbage) ==
  \E k \in 1..Len(terms) : TermHolds(temp, terms[k], garbage)

\* The indices that condition reads: || stops at the first term that holds.
NeighbourReads(temp, terms, garbage) ==
  {terms[k][2] : k \in {n \in 1..Len(terms) :
     /\ terms[n][1]
     /\ \A j \in 1..(n - 1) : ~TermHolds(temp, terms[j], garbage)}}

\* The cells one round of the dilation visits, each with its condition: the
\* interior, the top and bottom rows, the left and right columns.
DilationVisits(w, h) ==
  {<<y * w + x,
     LET idx == y * w + x
     IN  <<<<TRUE, idx - w - 1>>, <<TRUE, idx - w>>, <<TRUE, idx - w + 1>>,
           <<TRUE, idx - 1>>, <<TRUE, idx + 1>>,
           <<TRUE, idx + w - 1>>, <<TRUE, idx + w>>, <<TRUE, idx + w + 1>>>> >> :
     x \in 1..(w - 2), y \in 1..(h - 2)}
  \cup
  {<<x, <<<<x > 0, x - 1>>, <<x < w - 1, x + 1>>, <<TRUE, w + x>>,
          <<x > 0, w + x - 1>>, <<x < w - 1, w + x + 1>>>> >> : x \in 0..(w - 1)}
  \cup
  {LET bottom_idx == (h - 1) * w + x
   IN  <<bottom_idx,
         <<<<x > 0, bottom_idx - 1>>, <<x < w - 1, bottom_idx + 1>>,
           <<TRUE, bottom_idx - w>>, <<x > 0, bottom_idx - w - 1>>,
           <<x < w - 1, bottom_idx - w + 1>>>> >> : x \in 0..(w - 1)}
  \cup
  {LET left_idx == y * w
   IN  <<left_idx,
         <<<<TRUE, left_idx - w>>, <<TRUE, left_idx - w + 1>>,
           <<TRUE, left_idx + 1>>, <<TRUE, left_idx + w>>,
           <<TRUE, left_idx + w + 1>>>> >> : y \in 1..(h - 2)}
  \cup
  {LET right_idx == y * w + w - 1
   IN  <<right_idx,
         <<<<TRUE, right_idx - w - 1>>, <<TRUE, right_idx - w>>,
           <<TRUE, right_idx - 1>>, <<TRUE, right_idx + w - 1>>,
           <<TRUE, right_idx + w>>>> >> : y \in 1..(h - 2)}

\* The rounds of the iterative dilation from round iter on: the output buffer
\* after them and the indices of temp_buffer they read.
RECURSIVE Dilation(_, _, _, _, _, _)
Dilation(out, w, h, iter, border_width, garbage) ==
  IF iter >= border_width THEN [output |-> out, accessed |-> {}]
  ELSE LET temp_buffer == out
           open == {v \in DilationVisits(w, h) : temp_buffer[v[1]] = DZero}
           grown == {v[1] : v \in {u \in open :
                                     AnyNeighbour(temp_buffer, u[2], garbage)}}
           reads == UNION {NeighbourReads(temp_buffer, v[2], garbage) : v \in open}
           after == [i \in DOMAIN out |-> IF i \in grown THEN DOne ELSE out[i]]
           rest == Dilation(after, w, h, iter + 1, border_width, garbage)
       IN  [output |-> rest.output, accessed |-> reads \cup rest.accessed]

\* expand_mask_native of src/ios/Classes/mask_processor.c.
expand_mask_native_ios(m, out, w, h, border_width, malloc_ok, garbage) ==
  IF m = NULL \/ out = NULL \/ w <= 0 \/ h <= 0 \/ border_width < 0
  THEN [result |-> MASK_PROCESSOR_ERROR_INVALID_PARAMS, output |-> out,
        accessed |-> {}, allocated |-> 0, freed |-> 0]
  ELSE IF border_width = 0
  THEN [result |-> MASK_PROCESSOR_SUCCESS, output |-> [i \in 0..(w * h - 1) |-> m[i]],
        accessed |-> 0..(w * h - 1), allocated |-> 0, freed |-> 0]
  ELSE IF border_width <= 3
  THEN LET marked == UNION {KernelTargets(w, h, center_idx, border_width) :
                              center_idx \in Foreground(m, w, h)}
       IN  [result |-> MASK_PROCESSOR_SUCCESS,
            output |-> Marks(w, h, marked),
            accessed |-> (0..(w * h - 1)) \cup marked,
            allocated |-> 0, freed |-> 0]
  ELSE LET first == Marks(w, h, Foreground(m, w, h))
       IN  IF ~malloc_ok
           THEN [result |-> MASK_PROCESSOR_ERROR_MEMORY, output |-> first,
                 accessed |-> 0..(w * h - 1), allocated |-> 0, freed |-> 0]
           ELSE LET d == Dilation(first, w, h, 0, border_width, garbage)
                IN  [result |-> MASK_PROCESSOR_SUCCESS, output |-> d.output,
                     accessed |-> (0..(w * h - 1)) \cup d.accessed,
                     allocated |-> 1, freed |-> 1]

(***************************************************************************)
(* The caller: buffers of width * height doubles and width * height * 4    *)
(* bytes, one mask kernel at most, then the compositor.                    *)
(***************************************************************************)
VARIABLES width, height, mask, pixels, output, pixels_in, output_in,
          pc, call, result, oob

vars == <<width, height, mask, pixels, output, pixels_in, output_in,
          pc, call, result, oob>>

Cells(w, h) == 0..(w * h - 1)

Uniform(w, h, v) == [i \in Cells(w, h) |-> v]

\* Background everywhere but on at most MaxForeground cells of one value.
SparseMasks(w, h) ==
  {[i \in Cells(w, h) |-> IF i \in fg THEN Lit(v) ELSE DZero] :
     fg \in {s \in SUBSET Cells(w, h) : Cardinality(s) <= MaxForeground},
     v \in ForegroundLevels}

Masks(w, h) ==
  IF <<w, h>> \in SmallDims
  THEN [Cells(w, h) -> MaskValues]
  ELSE {Uniform(w, h, Lit(k)) : k \in Levels} \cup SparseMasks(w, h)

\* The image before the call: every byte differs from its neighbours.
Image(w, h) == [j \in 0..(w * h * 4 - 1) |-> (j * 37 + 11) % 256]

NoCall == [op |-> "none"]

\* What a caller may get wrong: nothing, an absent buffer, a dimension that
\* is not positive.
Faults == {"none", "pixels", "mask", "output", "pointers",
           "width_zero", "width_negative", "height_zero", "height_negative"}

\* The grids of the faulty callers.
FaultDims == {<<1, 1>>, <<2, 1>>}

Init ==
  /\ \E d \in SmallDims \cup ShapeDims, fault \in Faults :
       /\ fault # "none" => d \in FaultDims
       /\ width = CASE fault = "width_zero" -> 0
                    [] fault = "width_negative" -> -1
                    [] OTHER -> d[1]
       /\ height = CASE fault = "height_zero" -> 0
                     [] fault = "height_negative" -> -1
                     [] OTHER -> d[2]
       /\ mask \in IF fault \in {"mask", "pointers"} THEN {NULL}
                   ELSE Masks(d[1], d[2])
       /\ pixels = IF fault \in {"pixels", "pointers"} THEN NULL
                   ELSE Image(d[1], d[2])
       /\ output \in IF fault \in {"output", "pointers"} THEN {NULL}
                     ELSE {Uniform(d[1], d[2], DZero), Uniform(d[1], d[2], DOne)}
  /\ pixels_in = pixels
  /\ output_in = output
  /\ pc = "ready"
  /\ call = NoCall
  /\ result = MASK_PROCESSOR_SUCCESS
  /\ oob = FALSE

\* CompositeMask: the caller passes the output buffer as the expanded mask,
\* or no expanded mask.
CompositeMask ==
  /\ pc = "ready"
  /\ \E add_border \in {0, 1}, border_color \in BorderColors,
        border_width \in {0, MaxBorderWidth}, with_expanded \in BOOLEAN :
       \E r \in {apply_sticker_mask_native(pixels, mask, width, height, add_border,
                       border_color, border_width,
                       IF with_expanded THEN output ELSE NULL)} :
           /\ pixels' = r.pixels
           /\ result' = r.result
           /\ oob' = ~(r.written \subseteq DOMAIN pixels)
           /\ call' = [op |-> "composite", add_border |-> add_border,
                       border_color |-> border_color,
                       with_expanded |-> (with_expanded /\ output # NULL)]
  /\ pixels_in' = pixels
  /\ pc' = "done"
  /\ UNCHANGED <<width, height, mask, output, output_in>>

\* SmoothMask into the output buffer.
SmoothMask ==
  /\ pc = "ready"
  /\ call = NoCall
  /\ \E kernel_size \in (-1)..MaxKernelSize, malloc_ok \in BOOLEAN :
       \E r \in {smooth_mask_native(mask, output, width, height, kernel_size,
                                     malloc_ok)} :
         /\ output' = r.output
         /\ result' = r.result
         /\ oob' = ~(r.accessed \subseteq Cells(width, height))
         /\ call' = [op |-> "smooth", kernel_size |-> kernel_size,
                     allocated |-> r.allocated, freed |-> r.freed]
  /\ output_in' = output
  /\ UNCHANGED <<width, height, mask, pixels, pixels_in, pc>>

\* ExpandMask of src/src/native into the output buffer.
ExpandMask ==
  /\ pc = "ready"
  /\ call = NoCall
  /\ \E border_width \in (-1)..MaxBorderWidth :
       \E r \in {expand_mask_native(mask, output, width, height, border_width)} :
         /\ output' = r.output
         /\ result' = r.result
         /\ oob' = ~(r.accessed \subseteq Cells(width, height))
         /\ call' = [op |-> "expand", border_width |-> border_width,
                     allocated |-> r.allocated, freed |-> r.freed]
  /\ output_in' = output
  /\ UNCHANGED <<width, height, mask, pixels, pixels_in, pc>>

\* What the memory around the scratch buffer may hold.
Garbage == [below : {DZero, DOne}, above : {DZero, DOne}]

\* ExpandMask of src/ios/Classes into the output buffer.
ExpandMaskIOS ==
  /\ pc = "ready"
  /\ call = NoCall
  /\ \E border_width \in (-1)..MaxBorderWidth, malloc_ok \in BOOLEAN,
        garbage \in Garbage :
       \E r \in {expand_mask_native_ios(mask, output, width, height, border_width,
                                         malloc_ok, garbage)} :
         /\ output' = r.output
         /\ result' = r.result
         /\ oob' = ~(r.accessed \subseteq Cells(width, height))
         /\ call' = [op |-> "expand_ios", border_width |-> border_width,
                     allocated |-> r.allocated, freed |-> r.freed]
  /\ output_in' = output
  /\ UNCHANGED <<width, height, mask, pixels, pixels_in, pc>>

Next == CompositeMask \/ SmoothMask \/ ExpandMask \/ ExpandMaskIOS

Spec == Init /\ [][Next]_vars

(***************************************************************************)
(* The claims.                                                             *)
(***************************************************************************)
\* The doubles of 0.45, 0.5 and 0.55.
Low == Lit(45)
Half == Lit(50)
High == Lit(55)

Composited == call.op = "composite" /\ result = MASK_PROCESSOR_SUCCESS
Smoothed == call.op = "smooth" /\ result = MASK_PROCESSOR_SUCCESS
Expanded == call.op = "expand" /\ result = MASK_PROCESSOR_SUCCESS
ExpandedIOS == call.op = "expand_ios" /\ result = MASK_PROCESSOR_SUCCESS

\* The value e of the border test at pixel i of the last CompositeMask call.
ExpandedValue(i) == IF call.with_expanded THEN output[i] ELSE mask[i]

Alpha(i) == pixels[4 * i + 3]

\* Pixel i is classified as a border pixel: m < 0.45, add_border, e > 0.5.
BorderPixel(i) ==
  /\ DLess(mask[i], Low)
  /\ call.add_border = 1
  /\ DGreater(ExpandedValue(i), Half)

\* Pixel i carries the border colour, opaque.
Painted(i) ==
  /\ pixels[4 * i] = call.border_color.r
  /\ pixels[4 * i + 1] = call.border_color.g
  /\ pixels[4 * i + 2] = call.border_color.b
  /\ Alpha(i) = 255

\* Pixel i has the R, G, B it had before the call.
ColourKept(i) == \A c \in 0..2 : pixels[4 * i + c] = pixels_in[4 * i + c]

\* C1: after CompositeMask a pixel with m > 0.55 has alpha 255 whatever the
\* border arguments are; a pixel with m < 0.45 is a border pixel (border
\* colour, alpha 255) exactly when add_border holds and e > 0.5, and has
\* alpha 0 otherwise.
C1_BandsAndBorder ==
  Composited =>
    \A i \in Cells(width, height) :
      /\ DGreater(mask[i], High) => Alpha(i) = 255
      /\ DLess(mask[i], Low) =>
           IF call.add_border = 1 /\ DGreater(ExpandedValue(i), Half)
           THEN Painted(i)
           ELSE Alpha(i) = 0

\* A call with a border that meets a foreground pixel, a border pixel and a
\* background pixel outside the expanded mask.
C1_Witness ==
  /\ Composited
  /\ call.add_border = 1
  /\ call.with_expanded
  /\ \E i, j, k \in Cells(width, height) :
       /\ DGreater(mask[i], High) /\ Alpha(i) = 255
       /\ BorderPixel(j) /\ Painted(j)
       /\ DLess(mask[k], Low) /\ ~BorderPixel(k) /\ Alpha(k) = 0

\* The mask level k (hundredths) of a mask value.
LevelValue == [k \in Levels |-> Lit(k)]
LevelOf(d) == CHOOSE k \in Levels : LevelValue[k] = d

\* clamp(round((k/100 - 0.45) / 0.1 * 255), 0, 255) of the real numbers,
\* halves rounded away from zero.
RampAlpha(k) == clamp_int(((k - 45) * 255 * 2 + 10) \div 20, 0, 255)

\* C2: a pixel with 0.45 <= m <= 0.55 gets alpha
\* clamp(round((m - 0.45) / 0.1 * 255), 0, 255) and keeps R, G, B; a 1x1
\* image with mask [0.5] and no border gets alpha 128.
C2_TransitionRamp ==
  Composited =>
    \A i \in Cells(width, height) :
      (DLeq(Low, mask[i]) /\ DLeq(mask[i], High)) =>
        /\ Alpha(i) = RampAlpha(LevelOf(mask[i]))
        /\ ColourKept(i)

\* Pixels i and j see the same expanded-mask argument.
SameExpanded(i, j) == call.with_expanded => output[i] = output[j]

\* C3: alpha is non-decreasing in the mask value over the whole domain, the
\* other inputs being equal.
C3_MonotoneEverywhere ==
  Composited =>
    \A i, j \in Cells(width, height) :
      (DLeq(mask[i], mask[j]) /\ SameExpanded(i, j)) => Alpha(i) <= Alpha(j)

\* C3 as amended: alpha is non-decreasing in the mask value, the other inputs
\* being equal, unless the pixel of the lower value is a border pixel.
C3_MonotoneOffBorder ==
  Composited =>
    \A i, j \in Cells(width, height) :
      (DLeq(mask[i], mask[j]) /\ SameExpanded(i, j) /\ ~BorderPixel(i))
        => Alpha(i) <= Alpha(j)

\* A bordered call with a background pixel outside the expanded mask, below
\* a transition pixel, below a foreground pixel.
C3_Witness ==
  /\ Composited
  /\ call.add_border = 1
  /\ call.with_expanded
  /\ \E i, j \in Cells(width, height) :
       /\ DLess(mask[i], mask[j])
       /\ SameExpanded(i, j)
       /\ ~BorderPixel(i)
       /\ Alpha(i) < Alpha(j)
       /\ Alpha(j) < 255

\* C4: CompositeMask keeps R, G, B of every pixel that is not a border pixel,
\* writes R, G, B, A together on border pixels only, and writes no byte
\* outside the width * height * 4 bytes of the image.
C4_ColourPreserved ==
  Composited =>
    /\ DOMAIN pixels = 0..(width * height * 4 - 1)
    /\ ~oob
    /\ \A i \in Cells(width, height) :
         IF BorderPixel(i) THEN Painted(i) ELSE ColourKept(i)

\* A call that paints one pixel and changes only the alpha of another.
C4_Witness ==
  /\ Composited
  /\ \E i, j \in Cells(width, height) :
       /\ BorderPixel(i) /\ Painted(i) /\ ~ColourKept(i)
       /\ ~BorderPixel(j) /\ ColourKept(j) /\ Alpha(j) # pixels_in[4 * j + 3]

Max(a, b) == IF a > b THEN a ELSE b
Min(a, b) == IF a < b THEN a ELSE b

\* ((0.0 + f[lo]) + f[lo + 1]) + ... + f[hi], each sum a double.
RECURSIVE RangeSum(_, _, _)
RangeSum(f, lo, hi) ==
  IF lo > hi THEN DZero ELSE FAdd(RangeSum(f, lo, hi - 1), f[hi])

\* The mean of row y of grid g over the in-bounds columns x-half..x+half.
RowMean(g, w, x, y, half) ==
  LET lo == Max(0, x - half)
      hi == Min(w - 1, x + half)
  IN  FDivInt(RangeSum([c \in lo..hi |-> g[y * w + c]], lo, hi), hi - lo + 1)

\* The mean over the in-bounds rows y-half..y+half of the row means at x.
MeanOfRowMeans(g, w, h, x, y, half) ==
  LET lo == Max(0, y - half)
      hi == Min(h - 1, y + half)
  IN  FDivInt(RangeSum([r \in lo..hi |-> RowMean(g, w, x, r, half)], lo, hi),
              hi - lo + 1)

C6_WithinRange ==
  Smoothed =>
    \A i \in Cells(width, height) :
      /\ \E j \in Cells(width, height) : DLeq(mask[j], output[i])
      /\ \E j \in Cells(width, height) : DLeq(output[i], mask[j])

\* (x, y) lies within distance border_width of a cell above 0.5.
NearForeground(x, y, border_width) ==
  \E f \in Cells(width, height) :
    /\ DGreater(mask[f], Half)
    /\ LET dx == x - (f % width)
           dy == y - (f \div width)
       IN  dx * dx + dy * dy <= border_width * border_width

\* C7: ExpandMask of src/src/native writes 0.0 or 1.0 to every cell, and 1.0
\* exactly to the cells within distance border_width of a cell above 0.5; a
\* 3x3 mask with only the centre set and border_width 1 gives the plus shape.
C7_EuclideanDisk ==
  Expanded =>
    /\ \A i \in Cells(width, height) :
         /\ output[i] \in {DZero, DOne}
         /\ output[i] = DOne <=>
              NearForeground(i % width, i \div width, call.border_width)
    /\ (width = 3 /\ height = 3 /\ call.border_width = 1
          /\ Foreground(mask, 3, 3) = {4})
         => {i \in Cells(3, 3) : output[i] = DOne} = {1, 3, 4, 5, 7}

\* The plus shape, and a disk that the grid cuts.
C7_Witness ==
  /\ Expanded
  /\ width = 3 /\ height = 3
  /\ call.border_width = 1
  /\ Foreground(mask, 3, 3) = {4}
  /\ output[1] = DOne
  /\ output[0] = DZero

\* C8: with border_width 0 both variants write the thresholded mask: 1.0
\* where mask > 0.5 and 0.0 elsewhere.
C8_ZeroWidthThresholds ==
  ((Expanded \/ ExpandedIOS) /\ call.border_width = 0) =>
    \A i \in Cells(width, height) :
      output[i] = IF DGreater(mask[i], Half) THEN DOne ELSE DZero

\* C9: in both variants a cell that is 1.0 at a border width is 1.0 at every
\* larger one.
C9_MonotoneInWidth ==
  /\ Expanded =>
       \A w1 \in 0..(call.border_width - 1) : \A i \in Cells(width, height) :
         expand_mask_native(mask, output_in, width, height, w1).output[i] = DOne
           => output[i] = DOne
  /\ ExpandedIOS =>
       \A w1 \in 0..(call.border_width - 1) : \A g \in Garbage :
         \A i \in Cells(width, height) :
           expand_mask_native_ios(mask, output_in, width, height, w1, TRUE,
                                  g).output[i] = DOne
             => output[i] = DOne

\* C10: on a grid of width 1 or height 1 no call reads or writes outside its
\* buffers.
C10_DegenerateInBounds ==
  ((width = 1 \/ height = 1) /\ call.op # "none") => ~oob

\* The last call was made with an argument its validation rejects: an absent
\* buffer, a dimension that is not positive, a kernel_size that is not
\* positive or a negative border_width.
InvalidCall ==
  \/ width <= 0
  \/ height <= 0
  \/ mask = NULL
  \/ call.op = "composite" /\ pixels_in = NULL
  \/ call.op \in {"smooth", "expand", "expand_ios"} /\ output_in = NULL
  \/ call.op = "smooth" /\ call.kernel_size <= 0
  \/ call.op \in {"expand", "expand_ios"} /\ call.border_width < 0

\* C11: a call with an absent buffer, a width or height <= 0, a
\* kernel_size <= 0 (SmoothMask) or a border_width < 0 (ExpandMask) returns
\* ERROR_INVALID_PARAMS and leaves every byte of its output buffer as it
\* was; a call with valid arguments never returns ERROR_INVALID_PARAMS.
C11_ValidatesBeforeWriting ==
  call.op # "none" =>
    IF InvalidCall
    THEN /\ result = MASK_PROCESSOR_ERROR_INVALID_PARAMS
         /\ IF call.op = "composite" THEN pixels = pixels_in
            ELSE output = output_in
    ELSE result # MASK_PROCESSOR_ERROR_INVALID_PARAMS

\* SmoothMask with kernel_size 0 on good buffers that differ: rejected, and
\* the output is not the copy of the mask that kernel_size 1 makes.
C11_Witness ==
  /\ call.op = "smooth"
  /\ call.kernel_size = 0
  /\ width > 0 /\ height > 0
  /\ mask # NULL /\ output_in # NULL
  /\ output_in # mask
  /\ result = MASK_PROCESSOR_ERROR_INVALID_PARAMS
  /\ output = output_in

\* C12: when the allocation of the scratch buffer fails in SmoothMask or
\* ExpandMask (either variant) the call returns ERROR_MEMORY and the output
\* buffer is as it was before the call; when it succeeds the scratch buffer
\* is released exactly once before the call returns.
C12_AllocationFailureClean ==
  call.op \in {"smooth", "expand", "expand_ios"} =>
    /\ result = MASK_PROCESSOR_ERROR_MEMORY =>
         /\ call.allocated = 0
         /\ output = output_in
    /\ result = MASK_PROCESSOR_SUCCESS => call.freed = call.allocated

\* C13: for border_width 1..3 the iOS variant marks exactly the in-bounds
\* cells (x + dx, y + dy) with dx^2 + dy^2 <= border_width^2 around the cells
\* above 0.5, foreground in the first or last column included, and so writes
\* the output that expand_mask_native of src/src/native writes.
C13_DirectKernelExact ==
  (ExpandedIOS /\ call.border_width \in 1..3) =>
    /\ \A i \in Cells(width, height) :
         output[i] = DOne <=>
           NearForeground(i % width, i \div width, call.border_width)
    /\ output = expand_mask_native(mask, output_in, width, height,
                                   call.border_width).output

\* C14: a CompositeMask call without an expanded mask classifies no pixel as
\* a border pixel, whatever add_border, border_color and border_width are:
\* every R, G, B byte of the buffer is as it was before the call, and the
\* buffer is the one the same call with add_border = false leaves.
C14_NoBorderWithoutExpanded ==
  (Composited /\ ~call.with_expanded) =>
    /\ \A i \in Cells(width, height) : ~BorderPixel(i) /\ ColourKept(i)
    /\ \A j \in DOMAIN pixels : j % 4 # 3 => pixels[j] = pixels_in[j]
    /\ pixels = apply_sticker_mask_native(pixels_in, mask, width, height, 0,
                                          call.border_color, 0, NULL).pixels

\* A bordered call without an expanded mask on a background pixel: the pixel
\* turns transparent and keeps its colour.
C14_Witness ==
  /\ Composited
  /\ ~call.with_expanded
  /\ call.add_border = 1
  /\ \E i \in Cells(width, height) :
       /\ DLess(mask[i], Low)
       /\ Alpha(i) = 0
       /\ Alpha(i) # pixels_in[4 * i + 3]
       /\ ColourKept(i)
       /\ pixels[4 * i] # call.border_color.r
====
